---------------------------- MODULE Spec2Model ----------------------------
(***************************************************************************)
(* A model of src/sys/socket/addr.rs (nix): the socket-address value types *)
(* InetAddr, Ipv4Addr, Ipv6Addr, UnixAddr, NetlinkAddr, PacketAddr,        *)
(* SysControlAddr and SockAddr, with AddressFamily::from_i32, the raw       *)
(* conversions from_libc_sockaddr / as_ffi_pair, Display and                *)
(* SysControlAddr::from_name.                                              *)
(*                                                                         *)
(* The types are immutable values, so the state of the model is the set of *)
(* values a caller currently holds, each together with the call that made  *)
(* it, and one action per public constructor / public-field write.  The    *)
(* pure functions (accessors, conversions, equality) are operators that    *)
(* follow the code line by line.  Integers keep their width: a u16 is a    *)
(* number below 2^16, and the byte-order conversions are modelled as the   *)
(* byte swaps they are on a little-endian host and as the identity on a    *)
(* big-endian one, the host being chosen in the initial state.             *)
(***************************************************************************)
EXTENDS Integers, Sequences, FiniteSets, TLC

VARIABLES
    target_os,      \* cfg(target_os): the platform the crate is built for
    target_endian,  \* cfg(target_endian): byte order of the host
    inetA,          \* an InetAddr with the call that produced it
    inetB,          \* a second InetAddr, built through the public variants
    unixA,          \* the Result of a UnixAddr constructor, with its call
    unixL,          \* a UnixAddr written through its public fields
    unixR,          \* a second one, the other operand of ==
    sockA,          \* a SockAddr with the call that produced it
    sockB,          \* a second SockAddr, the other operand of ==
    famA,           \* an i32 family code with what from_i32 made of it
    rawA,           \* a *const sockaddr with what from_libc_sockaddr made of it
    ctlA            \* a SysControlAddr::from_name call: arguments, queries, result

vars == <<target_os, target_endian, inetA, inetB, unixA, unixL, unixR, sockA, sockB, famA, rawA, ctlA>>

-----------------------------------------------------------------------------
(* Option / Result                                                         *)

None == [tag |-> "None"]
Some(x) == [tag |-> "Some", val |-> x]
Ok(x) == [tag |-> "Ok", val |-> x]
Err(e) == [tag |-> "Err", err |-> e]

\* Errno::ENAMETOOLONG wrapped in Error::Sys
ENAMETOOLONG == "ENAMETOOLONG"
\* Error::InvalidPath, raised by NixPath for a path that is no C string
InvalidPath == "InvalidPath"

-----------------------------------------------------------------------------
(* Platforms and address-family codes                                      *)

LinuxLike == {"linux", "android"}
AppleLike == {"ios", "macos"}

AF_UNIX == 1
AF_INET == 2
AF_INET6 == IF target_os \in AppleLike THEN 30 ELSE IF target_os = "freebsd" THEN 28 ELSE 10
AF_NETLINK == 16
AF_PACKET == 17
AF_SYSTEM == 32
\* families the enum lists and from_i32 has no arm for
AF_IPX == IF target_os \in LinuxLike THEN 4 ELSE 23
AF_APPLETALK == IF target_os \in LinuxLike THEN 5 ELSE 16
AF_DECnet == 12

\* enum AddressFamily: the variants compiled for the target (of the families
\* no platform decodes, Ipx, AppleTalk and Decnet stand for the rest)
AddressFamily ==
    {"Unix", "Inet", "Inet6", "Ipx", "AppleTalk", "Decnet"}
        \cup (IF target_os \in LinuxLike THEN {"Netlink", "Packet"} ELSE {})
        \cup (IF target_os \in AppleLike THEN {"System"} ELSE {})

\* `variant as i32`: the discriminant the enum gives each variant
AddressFamily_as_i32(t) ==
    CASE t = "Unix" -> AF_UNIX
      [] t = "Inet" -> AF_INET
      [] t = "Inet6" -> AF_INET6
      [] t = "Netlink" -> AF_NETLINK
      [] t = "Packet" -> AF_PACKET
      [] t = "System" -> AF_SYSTEM
      [] t = "Ipx" -> AF_IPX
      [] t = "AppleTalk" -> AF_APPLETALK
      [] t = "Decnet" -> AF_DECnet

\* AddressFamily::from_i32: the match arms in order, each under its cfg
AddressFamily_from_i32(family) ==
    IF family = AF_UNIX THEN Some("Unix")
    ELSE IF family = AF_INET THEN Some("Inet")
    ELSE IF family = AF_INET6 THEN Some("Inet6")
    ELSE IF target_os \in LinuxLike /\ family = AF_NETLINK THEN Some("Netlink")
    ELSE IF target_os \in LinuxLike /\ family = AF_PACKET THEN Some("Packet")
    ELSE IF target_os \in {"macos", "macos"} /\ family = AF_SYSTEM THEN Some("System")
    ELSE None

-----------------------------------------------------------------------------
(* Byte order: u16/u32 ::to_be, ::from_be                                  *)

U8 == 256
U16 == 65536

\* A u16 is a number below 2^16.  A u32 is written in base 256, most
\* significant digit first: <<x >> 24, (x >> 16) & 255, (x >> 8) & 255, x & 255>>.
swap_bytes16(x) == (x % U8) * U8 + (x \div U8)
swap_bytes32(x) == <<x[4], x[3], x[2], x[1]>>

to_be16(x) == IF target_endian = "little" THEN swap_bytes16(x) ELSE x
from_be16(x) == IF target_endian = "little" THEN swap_bytes16(x) ELSE x
to_be32(x) == IF target_endian = "little" THEN swap_bytes32(x) ELSE x
from_be32(x) == IF target_endian = "little" THEN swap_bytes32(x) ELSE x

\* The two bytes a u16 field occupies in memory, lowest address first.
MemBytes16(x) ==
    IF target_endian = "little" THEN <<x % U8, x \div U8>> ELSE <<x \div U8, x % U8>>

-----------------------------------------------------------------------------
(* Ipv4Addr: a libc::in_addr, s_addr in network byte order                 *)

Ipv4Addr_new(a, b, c, d) ==
    LET ip == to_be32(<<a % U8, b % U8, c % U8, d % U8>>)
    IN  [s_addr |-> ip]

\* std is a net::Ipv4Addr, modelled by its octets()
Ipv4Addr_from_std(std) ==
    LET bits == std IN Ipv4Addr_new(bits[1], bits[2], bits[3], bits[4])

octets(self) ==
    LET bits == from_be32(self.s_addr)
    IN  <<bits[1], bits[2], bits[3], bits[4]>>

Ipv4Addr_to_std(self) ==
    LET bits == octets(self) IN <<bits[1], bits[2], bits[3], bits[4]>>

-----------------------------------------------------------------------------
(* Ipv6Addr: a libc::in6_addr, sixteen bytes in network byte order         *)

\* macro to_u8_array!: each u16 becomes (num >> 8) as u8, (num & 0xff) as u8
to_u8_array(s) ==
    [i \in 1..(2 * Len(s)) |->
        IF i % 2 = 1 THEN (s[(i + 1) \div 2] \div U8) % U8 ELSE s[i \div 2] % U8]

\* macro to_u16_array!: ((s6_addr[first] as u16) << 8) + s6_addr[second] as u16
to_u16_array(bytes) ==
    [i \in 1..(Len(bytes) \div 2) |-> ((bytes[2 * i - 1] * U8) + bytes[2 * i]) % U16]

\* s is the tuple <<a, b, c, d, e, f, g, h>>
Ipv6Addr_new(s) == [s6_addr |-> to_u8_array(s)]

\* std is a net::Ipv6Addr, modelled by its segments()
Ipv6Addr_from_std(std) ==
    LET s == std IN Ipv6Addr_new(<<s[1], s[2], s[3], s[4], s[5], s[6], s[7], s[8]>>)

segments(self) == to_u16_array(self.s6_addr)

Ipv6Addr_to_std(self) ==
    LET s == segments(self) IN <<s[1], s[2], s[3], s[4], s[5], s[6], s[7], s[8]>>

-----------------------------------------------------------------------------
(* InetAddr: enum { V4(libc::sockaddr_in), V6(libc::sockaddr_in6) }        *)

\* mem::zeroed() for the fields a struct literal does not name
sockaddr_in_zeroed == [sin_family |-> 0, sin_port |-> 0,
                       sin_addr |-> [s_addr |-> <<0, 0, 0, 0>>],
                       sin_zero |-> 0]
sockaddr_in6_zeroed ==
    [sin6_family |-> 0, sin6_port |-> 0, sin6_flowinfo |-> 0,
     sin6_addr |-> [s6_addr |-> [i \in 1..16 |-> 0]], sin6_scope_id |-> 0]

V4(sa) == [tag |-> "V4", sa |-> sa]
V6(sa) == [tag |-> "V6", sa |-> sa]

\* net::SocketAddr::V4(SocketAddrV4::new(ip, port))
StdV4(ip, port) == [tag |-> "V4", ip |-> ip, port |-> port]
\* net::SocketAddr::V6(SocketAddrV6::new(ip, port, flowinfo, scope_id))
StdV6(ip, port, flowinfo, scope_id) ==
    [tag |-> "V6", ip |-> ip, port |-> port, flowinfo |-> flowinfo, scope_id |-> scope_id]

\* from_std with the port left in host byte order
InetAddr_from_std_hostport(std) ==
    IF std.tag = "V4"
    THEN V4([sockaddr_in_zeroed EXCEPT
                !.sin_family = AF_INET,
                !.sin_port = std.port,
                !.sin_addr = Ipv4Addr_from_std(std.ip)])
    ELSE V6([sockaddr_in6_zeroed EXCEPT
                !.sin6_family = AF_INET6,
                !.sin6_port = std.port,
                !.sin6_addr = Ipv6Addr_from_std(std.ip),
                !.sin6_flowinfo = std.flowinfo,
                !.sin6_scope_id = std.scope_id])

InetAddr_from_std(std) ==
    IF std.tag = "V4"
    THEN V4([sockaddr_in_zeroed EXCEPT
                !.sin_family = AF_INET,
                !.sin_port = to_be16(std.port),
                !.sin_addr = Ipv4Addr_from_std(std.ip)])
    ELSE V6([sockaddr_in6_zeroed EXCEPT
                !.sin6_family = AF_INET6,
                !.sin6_port = to_be16(std.port),
                !.sin6_addr = Ipv6Addr_from_std(std.ip),
                !.sin6_flowinfo = std.flowinfo,
                !.sin6_scope_id = std.scope_id])

\* ip is an IpAddr: V4(Ipv4Addr) or V6(Ipv6Addr)
IpV4(ip) == [tag |-> "V4", ip |-> ip]
IpV6(ip) == [tag |-> "V6", ip |-> ip]

\* new with the port left in host byte order
InetAddr_new_hostport(ip, port) ==
    IF ip.tag = "V4"
    THEN V4([sockaddr_in_zeroed EXCEPT
                !.sin_family = AF_INET,
                !.sin_port = port,
                !.sin_addr = ip.ip])
    ELSE V6([sockaddr_in6_zeroed EXCEPT
                !.sin6_family = AF_INET6,
                !.sin6_port = port,
                !.sin6_addr = ip.ip])

InetAddr_new(ip, port) ==
    IF ip.tag = "V4"
    THEN V4([sockaddr_in_zeroed EXCEPT
                !.sin_family = AF_INET,
                !.sin_port = to_be16(port),
                !.sin_addr = ip.ip])
    ELSE V6([sockaddr_in6_zeroed EXCEPT
                !.sin6_family = AF_INET6,
                !.sin6_port = to_be16(port),
                !.sin6_addr = ip.ip])

InetAddr_ip(self) ==
    IF self.tag = "V4" THEN IpV4(self.sa.sin_addr) ELSE IpV6(self.sa.sin6_addr)

InetAddr_port(self) ==
    IF self.tag = "V6" THEN from_be16(self.sa.sin6_port) ELSE from_be16(self.sa.sin_port)

InetAddr_to_std(self) ==
    IF self.tag = "V4"
    THEN StdV4(Ipv4Addr_to_std(self.sa.sin_addr), InetAddr_port(self))
    ELSE StdV6(Ipv6Addr_to_std(self.sa.sin6_addr), InetAddr_port(self),
               self.sa.sin6_flowinfo, self.sa.sin6_scope_id)

\* eq as #[derive(PartialEq)] would give it: every field of the structure
InetAddr_eq_derived(self, other) == self = other

InetAddr_eq(self, other) ==
    IF self.tag = "V4" /\ other.tag = "V4"
    THEN self.sa.sin_port = other.sa.sin_port
            /\ self.sa.sin_addr.s_addr = other.sa.sin_addr.s_addr
    ELSE IF self.tag = "V6" /\ other.tag = "V6"
    THEN self.sa.sin6_port = other.sa.sin6_port
            /\ self.sa.sin6_addr.s6_addr = other.sa.sin6_addr.s6_addr
            /\ self.sa.sin6_flowinfo = other.sa.sin6_flowinfo
            /\ self.sa.sin6_scope_id = other.sa.sin6_scope_id
    ELSE FALSE

\* the fields fed to the hasher, in order
InetAddr_hash(self) ==
    IF self.tag = "V4"
    THEN <<self.sa.sin_family, self.sa.sin_port, self.sa.sin_addr.s_addr>>
    ELSE <<self.sa.sin6_family, self.sa.sin6_port, self.sa.sin6_addr.s6_addr,
           self.sa.sin6_flowinfo, self.sa.sin6_scope_id>>

-----------------------------------------------------------------------------
(* UnixAddr: struct UnixAddr(pub libc::sockaddr_un, pub usize)             *)
(* A value is the pair <<sockaddr_un, used length>>: u[1] is the field .0  *)
(* and u[2] the field .1 of the tuple struct.                              *)

\* ret.sun_path.len(): the capacity of libc::sockaddr_un::sun_path (108 on
\* Linux, 104 on the BSDs), scaled down so that every buffer content is
\* enumerated.
SunPathLen == 3

\* The byte values buffers and arguments are drawn from: NUL, '/', 'a'.
Bytes == {0, 47, 97}

RECURSIVE SeqsUpTo(_, _)
SeqsUpTo(S, n) ==
    IF n = 0 THEN {<< >>}
    ELSE LET shorter == SeqsUpTo(S, n - 1)
         IN  shorter \cup {Append(s, x) : s \in {t \in shorter : Len(t) = n - 1}, x \in S}

HasNul(bytes) == \E i \in 1..Len(bytes) : bytes[i] = 0

\* libc::sockaddr_un { sun_family: AddressFamily::Unix as sa_family_t, .. mem::zeroed() }
sockaddr_un_new == [sun_family |-> AF_UNIX, sun_path |-> [i \in 1..SunPathLen |-> 0]]

\* ptr::copy_nonoverlapping(src, dst.offset(at), count) into a sun_path buffer
copy_nonoverlapping(src, dst, at, count) ==
    [i \in 1..Len(dst) |-> IF i > at /\ i <= at + count THEN src[i - at] ELSE dst[i]]

\* the closure counting a terminating NUL in the length it checks and records
UnixAddr_new_closure_nulterm(bytes) ==
    LET ret == sockaddr_un_new
    IN  IF Len(bytes) + 1 > Len(ret.sun_path)
        THEN Err(ENAMETOOLONG)
        ELSE Ok(<<[ret EXCEPT !.sun_path = copy_nonoverlapping(bytes, ret.sun_path, 0, Len(bytes))],
                  Len(bytes) + 1>>)

\* the closure cutting an oversize path down to the buffer
UnixAddr_new_closure_truncate(bytes) ==
    LET ret == sockaddr_un_new
        n == IF Len(bytes) > Len(ret.sun_path) THEN Len(ret.sun_path) ELSE Len(bytes)
    IN  Ok(<<[ret EXCEPT !.sun_path = copy_nonoverlapping(bytes, ret.sun_path, 0, n)], n>>)

\* The closure UnixAddr::new hands to with_nix_path; bytes is cstr.to_bytes().
UnixAddr_new_closure(bytes) ==
    LET ret == sockaddr_un_new
    IN  IF Len(bytes) > Len(ret.sun_path)
        THEN Err(ENAMETOOLONG)
        ELSE Ok(<<[ret EXCEPT !.sun_path = copy_nonoverlapping(bytes, ret.sun_path, 0, Len(bytes))],
                  Len(bytes)>>)

\* NixPath::with_nix_path (lib.rs of the crate): runs the closure on the path
\* as a C string.  A C string holds no interior NUL, so a path with one is
\* refused before the closure runs.  f is the closure's result on the bytes.
with_nix_path(path, f) == IF HasNul(path) THEN Err(InvalidPath) ELSE Ok(f)

\* try!(path.with_nix_path(|cstr| ...)): the outer error is returned, the
\* outer Ok is unwrapped to the closure's own Result.
UnixAddr_new(path) ==
    LET r == with_nix_path(path, UnixAddr_new_closure(path))
    IN  IF r.tag = "Err" THEN r ELSE r.val

\* new_abstract recording the name's length without the leading zero byte
UnixAddr_new_abstract_namelen(path) ==
    LET ret == sockaddr_un_new
    IN  IF Len(path) + 1 > Len(ret.sun_path)
        THEN Err(ENAMETOOLONG)
        ELSE Ok(<<[ret EXCEPT !.sun_path = copy_nonoverlapping(path, ret.sun_path, 1, Len(path))],
                  Len(path)>>)

UnixAddr_new_abstract(path) ==
    LET ret == sockaddr_un_new
    IN  IF Len(path) + 1 > Len(ret.sun_path)
        THEN Err(ENAMETOOLONG)
        ELSE Ok(<<[ret EXCEPT !.sun_path = copy_nonoverlapping(path, ret.sun_path, 1, Len(path))],
                  Len(path) + 1>>)

\* slice::from_raw_parts(self.0.sun_path.as_ptr(), self.1)
sun_path(self) == SubSeq(self[1].sun_path, 1, self[2])

\* libc::strnlen(s, maxlen): scan for NUL, reading at most maxlen bytes
RECURSIVE strnlen_from(_, _, _)
strnlen_from(s, i, maxlen) ==
    IF i >= maxlen THEN maxlen
    ELSE IF s[i + 1] = 0 THEN i
    ELSE strnlen_from(s, i + 1, maxlen)

strnlen(s, maxlen) == strnlen_from(s, 0, maxlen)

\* path scanning the whole buffer for the NUL, not the used length
UnixAddr_path_unbounded(self) ==
    IF self[2] = 0 \/ self[1].sun_path[1] = 0
    THEN None
    ELSE LET reallen == strnlen(self[1].sun_path, Len(self[1].sun_path))
         IN  Some(SubSeq(self[1].sun_path, 1, reallen))

UnixAddr_path(self) ==
    IF self[2] = 0 \/ self[1].sun_path[1] = 0
    THEN None
    ELSE LET p == sun_path(self)
             reallen == strnlen(self[1].sun_path, Len(p))
         IN  Some(SubSeq(p, 1, reallen))

\* as_abstract testing the first byte alone, not the used length
UnixAddr_as_abstract_nolen(self) ==
    IF self[1].sun_path[1] = 0
    THEN Some(SubSeq(sun_path(self), 2, self[2]))
    ELSE None

\* cfg(any(target_os = "android", target_os = "linux"))
UnixAddr_as_abstract(self) ==
    IF self[2] >= 1 /\ self[1].sun_path[1] = 0
    THEN Some(SubSeq(sun_path(self), 2, self[2]))
    ELSE None

\* eq as #[derive(PartialEq)] would give it: the whole buffer and the length
UnixAddr_eq_derived(self, other) == self = other

UnixAddr_eq(self, other) == sun_path(self) = sun_path(other)

\* the fields fed to the hasher, in order
UnixAddr_hash(self) == <<self[1].sun_family, sun_path(self)>>

-----------------------------------------------------------------------------
(* impl fmt::Display: the text of an address                               *)

\* "{}" of an unsigned integer: its decimal digits, no padding
RECURSIVE fmt_decimal(_)
fmt_decimal(n) ==
    LET digit == <<"0", "1", "2", "3", "4", "5", "6", "7", "8", "9">>[(n % 10) + 1]
    IN  IF n < 10 THEN digit ELSE fmt_decimal(n \div 10) \o digit

\* "{:x}" of an unsigned integer: lower-case hexadecimal, no padding
RECURSIVE fmt_lower_hex(_)
fmt_lower_hex(n) ==
    LET digit == <<"0", "1", "2", "3", "4", "5", "6", "7",
                   "8", "9", "a", "b", "c", "d", "e", "f">>[(n % 16) + 1]
    IN  IF n < 16 THEN digit ELSE fmt_lower_hex(n \div 16) \o digit

\* impl Display for Ipv4Addr: the octets, dot-separated
Ipv4Addr_fmt(self) ==
    LET o == octets(self)
    IN  fmt_decimal(o[1]) \o "." \o fmt_decimal(o[2]) \o "."
            \o fmt_decimal(o[3]) \o "." \o fmt_decimal(o[4])

\* segments as colon-separated hexadecimal groups
RECURSIVE fmt_subslice(_)
fmt_subslice(segs) ==
    IF Len(segs) = 0 THEN ""
    ELSE IF Len(segs) = 1 THEN fmt_lower_hex(segs[1])
    ELSE fmt_lower_hex(segs[1]) \o ":" \o fmt_subslice(Tail(segs))

\* impl Display for std::net::Ipv6Addr: an IPv4-mapped address as
\* ::ffff:a.b.c.d, otherwise the groups with the first longest run of two
\* or more zero groups written as "::"
net_Ipv6Addr_fmt(segs) ==
    LET runs == {r \in (1..8) \X (2..8) :
                    /\ r[1] + r[2] - 1 <= 8
                    /\ \A i \in r[1]..(r[1] + r[2] - 1) : segs[i] = 0}
        longest == CHOOSE r \in runs :
                      \A q \in runs : q[2] < r[2] \/ (q[2] = r[2] /\ r[1] <= q[1])
    IN  IF SubSeq(segs, 1, 6) = <<0, 0, 0, 0, 0, 65535>>
        THEN "::ffff:" \o fmt_decimal(segs[7] \div U8) \o "." \o fmt_decimal(segs[7] % U8)
                 \o "." \o fmt_decimal(segs[8] \div U8) \o "." \o fmt_decimal(segs[8] % U8)
        ELSE IF runs = {} THEN fmt_subslice(segs)
        ELSE fmt_subslice(SubSeq(segs, 1, longest[1] - 1)) \o "::"
                 \o fmt_subslice(SubSeq(segs, longest[1] + longest[2], 8))

\* impl Display for Ipv6Addr: self.to_std().fmt(fmt)
Ipv6Addr_fmt(self) == net_Ipv6Addr_fmt(Ipv6Addr_to_std(self))

\* impl Display for IpAddr
IpAddr_fmt(self) == IF self.tag = "V4" THEN Ipv4Addr_fmt(self.ip) ELSE Ipv6Addr_fmt(self.ip)

\* Display for InetAddr writing the stored port field as it is
InetAddr_fmt_stored(self) ==
    IF self.tag = "V4"
    THEN IpAddr_fmt(InetAddr_ip(self)) \o ":" \o fmt_decimal(self.sa.sin_port)
    ELSE "[" \o IpAddr_fmt(InetAddr_ip(self)) \o "]:" \o fmt_decimal(self.sa.sin6_port)

\* impl Display for InetAddr: "{}:{}" / "[{}]:{}" of self.ip(), self.port()
InetAddr_fmt(self) ==
    IF self.tag = "V4"
    THEN IpAddr_fmt(InetAddr_ip(self)) \o ":" \o fmt_decimal(InetAddr_port(self))
    ELSE "[" \o IpAddr_fmt(InetAddr_ip(self)) \o "]:" \o fmt_decimal(InetAddr_port(self))

\* InetAddr::to_str: format!("{}", self)
InetAddr_to_str(self) == InetAddr_fmt(self)

\* String::from_utf8_lossy of bytes none of which starts a multi-byte
\* sequence, as code points: ASCII as it is, any other byte as U+FFFD
from_utf8_lossy(bytes) ==
    [i \in 1..Len(bytes) |-> IF bytes[i] < 128 THEN bytes[i] ELSE 65533]

\* the code points of "<unbound UNIX socket>"
UnboundText ==
    <<60, 117, 110, 98, 111, 117, 110, 100, 32, 85, 78, 73, 88, 32,
      115, 111, 99, 107, 101, 116, 62>>

\* Display for UnixAddr with the abstract name read to the end of sun_path
UnixAddr_fmt_capacity(self) ==
    IF self[2] = 0 THEN UnboundText
    ELSE IF UnixAddr_path(self).tag = "Some"
    THEN from_utf8_lossy(UnixAddr_path(self).val)
    ELSE <<64>> \o from_utf8_lossy(Tail(self[1].sun_path))

\* impl Display for UnixAddr; path.display() is the lossy text of the path
\* and 64 is '@'
UnixAddr_fmt(self) ==
    IF self[2] = 0 THEN UnboundText
    ELSE IF UnixAddr_path(self).tag = "Some"
    THEN from_utf8_lossy(UnixAddr_path(self).val)
    ELSE <<64>> \o from_utf8_lossy(Tail(sun_path(self)))

-----------------------------------------------------------------------------
(* InetAddr: the values a caller builds                                    *)

\* inputs: octets, segments, ports, flow-info and scope-id values
OctetSamples == {<<127, 0, 0, 1>>, <<1, 0, 0, 127>>, <<192, 168, 1, 1>>}
SegmentSamples == {<<0, 0, 0, 0, 0, 0, 0, 1>>, <<8193, 3512, 0, 0, 0, 0, 255, 65280>>}
PortSamples == {0, 256, 443, 8080}
FlowSamples == {0, 7}
ScopeSamples == {0, 3}

\* IpAddr::new_v4(a, b, c, d) and IpAddr::new_v6(a, .., h)
IpAddr_new_v4(o) == IpV4(Ipv4Addr_new(o[1], o[2], o[3], o[4]))
IpAddr_new_v6(s) == IpV6(Ipv6Addr_new(s))

\* sockaddr_in / sockaddr_in6 structures as a caller (or the kernel) may
\* fill them: any family field, any stored port and address, any padding.
RawSockaddrIn ==
    {[sin_family |-> f, sin_port |-> p, sin_addr |-> [s_addr |-> s], sin_zero |-> z] :
        f \in {AF_INET, 0}, p \in {1, 256}, s \in {<<0, 0, 0, 1>>, <<1, 0, 0, 0>>}, z \in {0, 255}}
RawSockaddrIn6 ==
    {[sin6_family |-> f, sin6_port |-> p, sin6_flowinfo |-> fl,
      sin6_addr |-> [s6_addr |-> to_u8_array(sg)], sin6_scope_id |-> sc] :
        f \in {AF_INET6, 0}, p \in {256},
        sg \in {<<0, 0, 0, 0, 0, 0, 0, 1>>, <<1, 0, 0, 0, 0, 0, 0, 0>>},
        fl \in FlowSamples, sc \in ScopeSamples}
RawInetAddr == {V4(sa) : sa \in RawSockaddrIn} \cup {V6(sa) : sa \in RawSockaddrIn6}

\* Ipv4Addr::any()
Ipv4Addr_any == [s_addr |-> <<0, 0, 0, 0>>]

InetCall(call, arg, val) == [call |-> call, arg |-> arg, val |-> val]

InetAny ==
    InetCall("new", [tag |-> "V4", parts |-> <<0, 0, 0, 0>>, port |-> 0],
             InetAddr_new(IpV4(Ipv4Addr_any), 0))

\* InetAddr::new(IpAddr::new_v4(a, b, c, d), port)
InetNewV4 ==
    /\ \E o \in OctetSamples, p \in PortSamples :
          inetA' = InetCall("new", [tag |-> "V4", parts |-> o, port |-> p],
                            InetAddr_new(IpAddr_new_v4(o), p))
    /\ UNCHANGED <<target_os, target_endian, inetB, unixA, unixL, unixR, sockA, sockB, famA, rawA, ctlA>>

\* InetAddr::new(IpAddr::new_v6(a, .., h), port)
InetNewV6 ==
    /\ \E sg \in SegmentSamples, p \in PortSamples :
          inetA' = InetCall("new", [tag |-> "V6", parts |-> sg, port |-> p],
                            InetAddr_new(IpAddr_new_v6(sg), p))
    /\ UNCHANGED <<target_os, target_endian, inetB, unixA, unixL, unixR, sockA, sockB, famA, rawA, ctlA>>

\* InetAddr::from_std(&net::SocketAddr::V4(..))
InetFromStdV4 ==
    /\ \E o \in OctetSamples, p \in PortSamples :
          LET std == StdV4(o, p)
          IN  inetA' = InetCall("from_std", std, InetAddr_from_std(std))
    /\ UNCHANGED <<target_os, target_endian, inetB, unixA, unixL, unixR, sockA, sockB, famA, rawA, ctlA>>

\* InetAddr::from_std(&net::SocketAddr::V6(..))
InetFromStdV6 ==
    /\ \E sg \in SegmentSamples, p \in PortSamples, fl \in FlowSamples, sc \in ScopeSamples :
          LET std == StdV6(sg, p, fl, sc)
          IN  inetA' = InetCall("from_std", std, InetAddr_from_std(std))
    /\ UNCHANGED <<target_os, target_endian, inetB, unixA, unixL, unixR, sockA, sockB, famA, rawA, ctlA>>

\* InetAddr::V4(sa) / InetAddr::V6(sa) of a structure filled elsewhere
InetVariantA ==
    /\ \E v \in RawInetAddr : inetA' = InetCall("variant", v, v)
    /\ UNCHANGED <<target_os, target_endian, inetB, unixA, unixL, unixR, sockA, sockB, famA, rawA, ctlA>>

InetVariantB ==
    /\ \E v \in RawInetAddr : inetB' = v
    /\ UNCHANGED <<target_os, target_endian, inetA, unixA, unixL, unixR, sockA, sockB, famA, rawA, ctlA>>

-----------------------------------------------------------------------------
(* UnixAddr: the values a caller builds                                    *)

\* Argument byte strings, one byte longer than the buffer at most.
ArgBytes == SeqsUpTo(Bytes, SunPathLen + 1)

UnixCall(call, arg, res) == [call |-> call, arg |-> arg, res |-> res]

\* UnixAddr(mem::zeroed(), 0) with the family set: the unnamed address
UnixUnnamed == <<sockaddr_un_new, 0>>

\* UnixAddr::new(path)
UnixNew ==
    /\ \E path \in ArgBytes : unixA' = UnixCall("new", path, UnixAddr_new(path))
    /\ UNCHANGED <<target_os, target_endian, inetA, inetB, unixL, unixR, sockA, sockB, famA, rawA, ctlA>>

\* UnixAddr::new_abstract(name), which exists on Linux and Android only
UnixNewAbstract ==
    /\ target_os \in LinuxLike
    /\ \E name \in ArgBytes :
          unixA' = UnixCall("new_abstract", name, UnixAddr_new_abstract(name))
    /\ UNCHANGED <<target_os, target_endian, inetA, inetB, unixL, unixR, sockA, sockB, famA, rawA, ctlA>>

\* addr.0.sun_path[i] = b through the public field .0
SetPathByte(u, i, b) == <<[u[1] EXCEPT !.sun_path[i] = b], u[2]>>
\* addr.1 = n through the public field .1, n within the buffer
SetUsedLen(u, n) == <<u[1], n>>

\* A write to a public field of the address a constructor returned (or the
\* kernel filling it in: getsockname, accept, recvfrom).
UnixWriteA ==
    /\ unixA.res.tag = "Ok"
    /\ \/ \E i \in 1..SunPathLen, b \in Bytes :
             unixA' = UnixCall("fields", << >>, Ok(SetPathByte(unixA.res.val, i, b)))
       \/ \E n \in 0..SunPathLen :
             unixA' = UnixCall("fields", << >>, Ok(SetUsedLen(unixA.res.val, n)))
    /\ UNCHANGED <<target_os, target_endian, inetA, inetB, unixL, unixR, sockA, sockB, famA, rawA, ctlA>>

UnixWriteL ==
    /\ \/ \E i \in 1..SunPathLen, b \in Bytes : unixL' = SetPathByte(unixL, i, b)
       \/ \E n \in 0..SunPathLen : unixL' = SetUsedLen(unixL, n)
    /\ UNCHANGED <<target_os, target_endian, inetA, inetB, unixA, unixR, sockA, sockB, famA, rawA, ctlA>>

UnixWriteR ==
    /\ \/ \E i \in 1..SunPathLen, b \in Bytes : unixR' = SetPathByte(unixR, i, b)
       \/ \E n \in 0..SunPathLen : unixR' = SetUsedLen(unixR, n)
    /\ UNCHANGED <<target_os, target_endian, inetA, inetB, unixA, unixL, sockA, sockB, famA, rawA, ctlA>>

\* let r = l.clone()
UnixCloneR ==
    /\ unixR' = unixL
    /\ UNCHANGED <<target_os, target_endian, inetA, inetB, unixA, unixL, sockA, sockB, famA, rawA, ctlA>>

-----------------------------------------------------------------------------
(* netlink::NetlinkAddr(pub sockaddr_nl), Linux and Android                *)

NetlinkAddr_new(pid, groups) ==
    [nl_family |-> AF_NETLINK, nl_pad |-> 0, nl_pid |-> pid, nl_groups |-> groups]

NetlinkAddr_eq(self, other) ==
    <<self.nl_family, self.nl_pid, self.nl_groups>>
        = <<other.nl_family, other.nl_pid, other.nl_groups>>

-----------------------------------------------------------------------------
(* packet::PacketAddr(pub sockaddr_ll), Linux and Android                  *)

\* mem::size_of_val(&inner.sll_addr): sockaddr_ll::sll_addr is [u8; 8]
SllAddrLen == 8

\* &self.0.sll_addr[..(self.0.sll_halen as usize)]
PacketAddr_get_addr(self) == SubSeq(self.sll_addr, 1, self.sll_halen)

\* the four assert!s that open PacketAddr::eq
PacketAddr_eq_asserts(self, other) ==
    /\ self.sll_family = AF_PACKET
    /\ self.sll_halen < SllAddrLen
    /\ other.sll_family = AF_PACKET
    /\ other.sll_halen < SllAddrLen

\* the comparison PacketAddr::eq returns once its assert!s have passed
PacketAddr_eq(self, other) ==
    <<self.sll_family, self.sll_protocol, self.sll_ifindex, self.sll_hatype,
      self.sll_pkttype, PacketAddr_get_addr(self)>>
        = <<other.sll_family, other.sll_protocol, other.sll_ifindex, other.sll_hatype,
            other.sll_pkttype, PacketAddr_get_addr(other)>>

-----------------------------------------------------------------------------
(* sys_control::SysControlAddr(pub sockaddr_ctl), iOS and macOS            *)

\* mem::size_of::<sockaddr_ctl>(): 1 + 1 + 2 + 4 + 4 + 5 * 4 bytes
SockaddrCtlSize == 32
\* libc::AF_SYS_CONTROL
AF_SYS_CONTROL == 2

SysControlAddr_new(id, unit) ==
    [sc_len |-> SockaddrCtlSize, sc_family |-> AF_SYSTEM, ss_sysaddr |-> AF_SYS_CONTROL,
     sc_id |-> id, sc_unit |-> unit, sc_reserved |-> <<0, 0, 0, 0, 0>>]

SysControlAddr_eq(self, other) ==
    <<self.sc_id, self.sc_unit>> = <<other.sc_id, other.sc_unit>>

\* const MAX_KCTL_NAME: the length of ctl_ioc_info::ctl_name
MAX_KCTL_NAME == 96

\* ioctl!(readwrite ctl_info ..): one ioctl(fd, CTLIOCGINFO, &mut info); the
\* kernel either fails with an errno or fills in info.ctl_id
ctl_info(fd, info, kernel) ==
    IF kernel.tag = "Err"
    THEN [ret |-> Err(kernel.err), info |-> info]
    ELSE [ret |-> Ok(0), info |-> [info EXCEPT !.ctl_id = kernel.val]]

\* from_name turning away a name as long as the buffer
SysControlAddr_from_name_strict(sockfd, name, unit, kernel) ==
    IF Len(name) >= MAX_KCTL_NAME
    THEN [calls |-> << >>, res |-> Err(ENAMETOOLONG)]
    ELSE LET info == [ctl_id |-> 0,
                      ctl_name |-> [i \in 1..MAX_KCTL_NAME |->
                                       IF i <= Len(name) THEN name[i] ELSE 0]]
             q == ctl_info(sockfd, info, kernel)
         IN  [calls |-> <<[call |-> "ioctl", fd |-> sockfd, arg |-> info]>>,
              res |-> IF q.ret.tag = "Err" THEN q.ret
                      ELSE Ok(SysControlAddr_new(q.info.ctl_id, unit))]

\* SysControlAddr::from_name: the length test, the zero-filled ctl_name with
\* the name copied in, try!(ctl_info(sockfd, &mut info)), then new(id, unit);
\* calls lists the system calls made on the way
SysControlAddr_from_name(sockfd, name, unit, kernel) ==
    IF Len(name) > MAX_KCTL_NAME
    THEN [calls |-> << >>, res |-> Err(ENAMETOOLONG)]
    ELSE LET info == [ctl_id |-> 0,
                      ctl_name |-> [i \in 1..MAX_KCTL_NAME |->
                                       IF i <= Len(name) THEN name[i] ELSE 0]]
             q == ctl_info(sockfd, info, kernel)
         IN  [calls |-> <<[call |-> "ioctl", fd |-> sockfd, arg |-> info]>>,
              res |-> IF q.ret.tag = "Err" THEN q.ret
                      ELSE Ok(SysControlAddr_new(q.info.ctl_id, unit))]

-----------------------------------------------------------------------------
(* SockAddr: enum { Inet, Unix, Netlink, Packet, SysControl }              *)

Inet(a) == [tag |-> "Inet", val |-> a]
Unix(a) == [tag |-> "Unix", val |-> a]
Netlink(a) == [tag |-> "Netlink", val |-> a]
Packet(a) == [tag |-> "Packet", val |-> a]
SysControl(a) == [tag |-> "SysControl", val |-> a]

SockAddr_new_inet(addr) == Inet(addr)

\* Ok(SockAddr::Unix(try!(UnixAddr::new(path))))
SockAddr_new_unix(path) ==
    LET r == UnixAddr_new(path)
    IN  IF r.tag = "Err" THEN r ELSE Ok(Unix(r.val))

SockAddr_new_netlink(pid, groups) == Netlink(NetlinkAddr_new(pid, groups))

\* SockAddr::family with V6 taken for V4
SockAddr_family_v4(self) ==
    CASE self.tag = "Inet" -> "Inet"
      [] self.tag = "Unix" -> "Unix"
      [] self.tag = "Netlink" -> "Netlink"
      [] self.tag = "Packet" -> "Packet"
      [] self.tag = "SysControl" -> "System"

\* SockAddr::family: the AddressFamily tag of the active variant
SockAddr_family(self) ==
    IF self.tag = "Inet" /\ self.val.tag = "V4" THEN "Inet"
    ELSE IF self.tag = "Inet" /\ self.val.tag = "V6" THEN "Inet6"
    ELSE IF self.tag = "Unix" THEN "Unix"
    ELSE IF self.tag = "Netlink" THEN "Netlink"
    ELSE IF self.tag = "Packet" THEN "Packet"
    ELSE "System"

\* addr: *const libc::sockaddr, null or pointing at a kernel structure
NullPtr == [tag |-> "null"]
Ptr(kind, sa) == [tag |-> "ptr", kind |-> kind, sa |-> sa]

\* (*addr).sa_family: the family field every sockaddr_* keeps in its header
sa_family(addr) ==
    CASE addr.kind = "sockaddr_in" -> addr.sa.sin_family
      [] addr.kind = "sockaddr_in6" -> addr.sa.sin6_family
      [] addr.kind = "sockaddr_un" -> addr.sa.sun_family
      [] addr.kind = "sockaddr_nl" -> addr.sa.nl_family
      [] addr.kind = "sockaddr_ll" -> addr.sa.sll_family
      [] addr.kind = "sockaddr_ctl" -> addr.sa.sc_family
      [] addr.kind = "sockaddr" -> addr.sa.sa_family

\* SockAddr::from_libc_sockaddr: the null test, then the match on
\* AddressFamily::from_i32 of the header, each arm under its cfg;
\* *(addr as *const T) copies the structure addr points at
SockAddr_from_libc_sockaddr(addr) ==
    IF addr = NullPtr THEN None
    ELSE LET family == AddressFamily_from_i32(sa_family(addr))
         IN  IF family = Some("Unix") THEN None
             ELSE IF family = Some("Inet") THEN Some(Inet(V4(addr.sa)))
             ELSE IF family = Some("Inet6") THEN Some(Inet(V6(addr.sa)))
             ELSE IF target_os \in LinuxLike /\ family = Some("Netlink")
             THEN Some(Netlink(addr.sa))
             ELSE IF target_os \in LinuxLike /\ family = Some("Packet")
             THEN Some(Packet(addr.sa))
             ELSE IF target_os \in AppleLike /\ family = Some("System")
             THEN Some(SysControl(addr.sa))
             ELSE None

\* mem::size_of::<libc::sockaddr_in>(), ::<sockaddr_in6>(), ::<sockaddr_nl>(),
\* ::<sockaddr_ll>() and offset_of!(libc::sockaddr_un, sun_path)
SockaddrInSize == 16
SockaddrIn6Size == 28
SockaddrNlSize == 12
SockaddrLlSize == 20
SunPathOffset == 2

\* as_ffi_pair giving the whole sockaddr_un for a Unix address
SockAddr_as_ffi_pair_whole(self) ==
    CASE self.tag = "Inet" /\ self.val.tag = "V4" ->
             <<Ptr("sockaddr_in", self.val.sa), SockaddrInSize>>
      [] self.tag = "Inet" /\ self.val.tag = "V6" ->
             <<Ptr("sockaddr_in6", self.val.sa), SockaddrIn6Size>>
      [] self.tag = "Unix" -> <<Ptr("sockaddr_un", self.val[1]), SunPathOffset + SunPathLen>>
      [] self.tag = "Netlink" -> <<Ptr("sockaddr_nl", self.val), SockaddrNlSize>>
      [] self.tag = "Packet" -> <<Ptr("sockaddr_ll", self.val), SockaddrLlSize>>
      [] self.tag = "SysControl" -> <<Ptr("sockaddr_ctl", self.val), SockaddrCtlSize>>

\* SockAddr::as_ffi_pair: (&sockaddr, socklen_t), the reference being to the
\* structure the variant stores
SockAddr_as_ffi_pair(self) ==
    IF self.tag = "Inet" /\ self.val.tag = "V4"
    THEN <<Ptr("sockaddr_in", self.val.sa), SockaddrInSize>>
    ELSE IF self.tag = "Inet" /\ self.val.tag = "V6"
    THEN <<Ptr("sockaddr_in6", self.val.sa), SockaddrIn6Size>>
    ELSE IF self.tag = "Unix"
    THEN <<Ptr("sockaddr_un", self.val[1]), self.val[2] + SunPathOffset>>
    ELSE IF self.tag = "Netlink"
    THEN <<Ptr("sockaddr_nl", self.val), SockaddrNlSize>>
    ELSE IF self.tag = "Packet"
    THEN <<Ptr("sockaddr_ll", self.val), SockaddrLlSize>>
    ELSE <<Ptr("sockaddr_ctl", self.val), SockaddrCtlSize>>

\* impl PartialEq for SockAddr: the match arms, the Netlink arm compiled on
\* Linux and Android only, and the catch-all
SockAddr_eq(self, other) ==
    IF self.tag = "Inet" /\ other.tag = "Inet" THEN InetAddr_eq(self.val, other.val)
    ELSE IF self.tag = "Unix" /\ other.tag = "Unix" THEN UnixAddr_eq(self.val, other.val)
    ELSE IF target_os \in LinuxLike /\ self.tag = "Netlink" /\ other.tag = "Netlink"
    THEN NetlinkAddr_eq(self.val, other.val)
    ELSE FALSE

\* impl Hash for NetlinkAddr, PacketAddr, SysControlAddr: the fields fed to
\* the hasher, in order
NetlinkAddr_hash(self) == <<self.nl_family, self.nl_pid, self.nl_groups>>

PacketAddr_hash(self) ==
    <<self.sll_family, self.sll_protocol, self.sll_ifindex, self.sll_hatype,
      self.sll_pkttype, PacketAddr_get_addr(self)>>

SysControlAddr_hash(self) == <<self.sc_id, self.sc_unit>>

\* impl hash::Hash for SockAddr: the hash of the active variant's address
SockAddr_hash(self) ==
    CASE self.tag = "Inet" -> InetAddr_hash(self.val)
      [] self.tag = "Unix" -> UnixAddr_hash(self.val)
      [] self.tag = "Netlink" -> NetlinkAddr_hash(self.val)
      [] self.tag = "Packet" -> PacketAddr_hash(self.val)
      [] self.tag = "SysControl" -> SysControlAddr_hash(self.val)

-----------------------------------------------------------------------------
(* SockAddr: the values a caller builds                                    *)

SockInetSamples ==
    {InetAddr_new(IpAddr_new_v4(o), p) : o \in {<<127, 0, 0, 1>>, <<1, 0, 0, 127>>}, p \in {0, 8080}}
        \cup {InetAddr_new(IpAddr_new_v6(<<0, 0, 0, 0, 0, 0, 0, 1>>), 8080)}
        \cup {InetAddr_from_std(StdV6(<<8193, 3512, 0, 0, 0, 0, 255, 65280>>, 256, 7, 3))}

\* sockaddr_ll structures as the kernel fills them
PacketSamples ==
    {[sll_family |-> AF_PACKET, sll_protocol |-> 8, sll_ifindex |-> ifx, sll_hatype |-> 1,
      sll_pkttype |-> 0, sll_halen |-> h, sll_addr |-> ad] :
        ifx \in {1, 2}, h \in {0, 6},
        ad \in {<<1, 2, 3, 4, 5, 6, 0, 0>>, <<1, 2, 3, 4, 5, 7, 0, 0>>}}

SockCall(call, val) == [call |-> call, val |-> val]

\* SockAddr::new_inet(addr)
SockNewInet ==
    /\ \E addr \in SockInetSamples : sockA' = SockCall("new_inet", SockAddr_new_inet(addr))
    /\ UNCHANGED <<target_os, target_endian, inetA, inetB, unixA, unixL, unixR, sockB, famA, rawA, ctlA>>

\* SockAddr::new_unix(path), when it returns Ok
SockNewUnix ==
    /\ \E path \in ArgBytes :
          LET r == SockAddr_new_unix(path)
          IN  r.tag = "Ok" /\ sockA' = SockCall("new_unix", r.val)
    /\ UNCHANGED <<target_os, target_endian, inetA, inetB, unixA, unixL, unixR, sockB, famA, rawA, ctlA>>

\* SockAddr::Unix(UnixAddr::new_abstract(name)?), Linux and Android
SockUnixAbstract ==
    /\ target_os \in LinuxLike
    /\ \E name \in ArgBytes :
          LET r == UnixAddr_new_abstract(name)
          IN  r.tag = "Ok" /\ sockA' = SockCall("variant", Unix(r.val))
    /\ UNCHANGED <<target_os, target_endian, inetA, inetB, unixA, unixL, unixR, sockB, famA, rawA, ctlA>>

\* SockAddr::new_netlink(pid, groups), Linux and Android
SockNewNetlink ==
    /\ target_os \in LinuxLike
    /\ \E pid \in {0, 1}, groups \in {0, 1} :
          sockA' = SockCall("new_netlink", SockAddr_new_netlink(pid, groups))
    /\ UNCHANGED <<target_os, target_endian, inetA, inetB, unixA, unixL, unixR, sockB, famA, rawA, ctlA>>

\* SockAddr::Packet(PacketAddr(sa)), Linux and Android
SockPacket ==
    /\ target_os \in LinuxLike
    /\ \E sa \in PacketSamples : sockA' = SockCall("variant", Packet(sa))
    /\ UNCHANGED <<target_os, target_endian, inetA, inetB, unixA, unixL, unixR, sockB, famA, rawA, ctlA>>

\* SockAddr::SysControl(SysControlAddr::new(id, unit)), iOS and macOS
SockSysControl ==
    /\ target_os \in AppleLike
    /\ \E id \in {1, 2}, unit \in {0, 1} :
          sockA' = SockCall("sys_control", SysControl(SysControlAddr_new(id, unit)))
    /\ UNCHANGED <<target_os, target_endian, inetA, inetB, unixA, unixL, unixR, sockB, famA, rawA, ctlA>>

\* let b = a.clone()
SockCloneB ==
    /\ sockB' = sockA.val
    /\ UNCHANGED <<target_os, target_endian, inetA, inetB, unixA, unixL, unixR, sockA, famA, rawA, ctlA>>

\* hardware-address lengths a sockaddr_ll may declare in its u8 sll_halen:
\* none, Ethernet, one below the capacity of sll_addr, the capacity, one above
HalenSamples == {0, 6, SllAddrLen - 1, SllAddrLen, SllAddrLen + 1}

\* a.0.sll_halen = h through the public field of PacketAddr (or the kernel
\* filling the structure in)
PacketSetHalenA ==
    /\ sockA.val.tag = "Packet"
    /\ \E h \in HalenSamples :
          sockA' = SockCall("fields", Packet([sockA.val.val EXCEPT !.sll_halen = h]))
    /\ UNCHANGED <<target_os, target_endian, inetA, inetB, unixA, unixL, unixR, sockB, famA, rawA, ctlA>>

PacketSetHalenB ==
    /\ sockB.tag = "Packet"
    /\ \E h \in HalenSamples : sockB' = Packet([sockB.val EXCEPT !.sll_halen = h])
    /\ UNCHANGED <<target_os, target_endian, inetA, inetB, unixA, unixL, unixR, sockA, famA, rawA, ctlA>>

-----------------------------------------------------------------------------
(* Raw socket addresses: the buffers the kernel hands back                 *)

\* Structures as accept / recvfrom / getsockname fill them on the target:
\* the storage holds the structure its header names (the caller's side of
\* the unsafe contract), or a family this module has no structure for.
RawSockaddrs ==
    {Ptr("sockaddr_in", sa) : sa \in {r \in RawSockaddrIn : r.sin_family = AF_INET}}
        \cup {Ptr("sockaddr_in6", sa) : sa \in {r \in RawSockaddrIn6 : r.sin6_family = AF_INET6}}
        \cup {Ptr("sockaddr_un", [sockaddr_un_new EXCEPT !.sun_path[1] = b]) : b \in Bytes}
        \cup (IF target_os \in LinuxLike
              THEN {Ptr("sockaddr_nl", NetlinkAddr_new(pid, 1)) : pid \in {0, 1}}
                       \cup {Ptr("sockaddr_ll", sa) : sa \in PacketSamples}
              ELSE {})
        \cup (IF target_os \in AppleLike
              THEN {Ptr("sockaddr_ctl", SysControlAddr_new(id, 0)) : id \in {1, 2}}
              ELSE {})
        \cup {Ptr("sockaddr", [sa_family |-> f]) :
                 f \in {0, AF_IPX, AF_APPLETALK, AF_DECnet, 99}
                        \cup (IF target_os \in LinuxLike THEN {} ELSE {AF_PACKET})
                        \cup (IF target_os \in AppleLike THEN {} ELSE {AF_SYSTEM})}

RawCall(addr) == [arg |-> addr, res |-> SockAddr_from_libc_sockaddr(addr)]

\* SockAddr::from_libc_sockaddr(addr)
RawFromLibc ==
    /\ \E addr \in {NullPtr} \cup RawSockaddrs : rawA' = RawCall(addr)
    /\ UNCHANGED <<target_os, target_endian, inetA, inetB, unixA, unixL, unixR, sockA, sockB, famA, ctlA>>

\* if let Some(a) = SockAddr::from_libc_sockaddr(addr)
SockFromLibc ==
    /\ \E addr \in {NullPtr} \cup RawSockaddrs :
          LET r == SockAddr_from_libc_sockaddr(addr)
          IN  r.tag = "Some" /\ sockA' = SockCall("from_libc_sockaddr", r.val)
    /\ UNCHANGED <<target_os, target_endian, inetA, inetB, unixA, unixL, unixR, sockB, famA, rawA, ctlA>>

-----------------------------------------------------------------------------
(* SysControlAddr::from_name: the lookups a caller makes                   *)

\* control names: empty, short, one below the buffer, the buffer, one above
NameSamples ==
    {[i \in 1..n |-> c] : n \in {0, 1, MAX_KCTL_NAME - 1, MAX_KCTL_NAME, MAX_KCTL_NAME + 1},
                          c \in {97, 99}}

\* what the kernel may answer to CTLIOCGINFO: an errno, or the control's id
KernelAnswers == {Err(e) : e \in {"ENOENT", "EINVAL", ENAMETOOLONG}} \cup {Ok(id) : id \in {1, 2}}

CtlCall(sockfd, name, unit, kernel) ==
    [fd |-> sockfd, name |-> name, unit |-> unit, kernel |-> kernel,
     out |-> SysControlAddr_from_name(sockfd, name, unit, kernel)]

\* SysControlAddr::from_name(sockfd, name, unit), iOS and macOS
CtlFromName ==
    /\ target_os \in AppleLike
    /\ \E sockfd \in {3, 4}, name \in NameSamples, unit \in {0, 1}, kernel \in KernelAnswers :
          ctlA' = CtlCall(sockfd, name, unit, kernel)
    /\ UNCHANGED <<target_os, target_endian, inetA, inetB, unixA, unixL, unixR, sockA, sockB, famA, rawA>>

-----------------------------------------------------------------------------
(* AddressFamily: the codes a caller decodes                               *)

\* the largest family code tried (libc::AF_MAX is 45 on Linux)
MaxFamilyCode == 45
FamilyCodes == -1..MaxFamilyCode

FamilyCall(family) == [arg |-> family, res |-> AddressFamily_from_i32(family)]

\* AddressFamily::from_i32(family)
FamilyFromI32 ==
    /\ \E family \in FamilyCodes : famA' = FamilyCall(family)
    /\ UNCHANGED <<target_os, target_endian, inetA, inetB, unixA, unixL, unixR, sockA, sockB, rawA, ctlA>>

-----------------------------------------------------------------------------
(* Specifications                                                          *)

TargetOs == {"linux", "android", "macos", "ios", "freebsd"}
TargetEndian == {"little", "big"}

\* what each variable holds before the calls under study
Defaults ==
    /\ inetA = InetAny
    /\ inetB = InetAny.val
    /\ unixA = UnixCall("new", << >>, UnixAddr_new(<< >>))
    /\ unixL = UnixUnnamed
    /\ unixR = UnixUnnamed
    /\ sockA = SockCall("new_inet", SockAddr_new_inet(InetAny.val))
    /\ sockB = SockAddr_new_inet(InetAny.val)
    /\ famA = FamilyCall(0)
    /\ rawA = RawCall(NullPtr)
    /\ ctlA = CtlCall(3, << >>, 0, Err("EINVAL"))

InitInet ==
    /\ target_os \in {"linux", "macos"}
    /\ target_endian \in TargetEndian
    /\ Defaults

NextInet ==
    \/ InetNewV4
    \/ InetNewV6
    \/ InetFromStdV4
    \/ InetFromStdV6
    \/ InetVariantA
    \/ InetVariantB

SpecInet == InitInet /\ [][NextInet]_vars

InitUnix ==
    /\ target_os \in {"linux", "freebsd"}
    /\ target_endian = "little"
    /\ Defaults

NextUnix ==
    \/ UnixNew
    \/ UnixNewAbstract
    \/ UnixWriteA

SpecUnix == InitUnix /\ [][NextUnix]_vars

NextUnixEq ==
    \/ UnixWriteL
    \/ UnixWriteR
    \/ UnixCloneR

InitUnixEq ==
    /\ target_os = "linux"
    /\ target_endian = "little"
    /\ Defaults

SpecUnixEq == InitUnixEq /\ [][NextUnixEq]_vars

InitSock ==
    /\ target_os \in TargetOs
    /\ target_endian \in TargetEndian
    /\ Defaults

NextSock ==
    \/ SockNewInet
    \/ SockNewUnix
    \/ SockUnixAbstract
    \/ SockNewNetlink
    \/ SockPacket
    \/ SockSysControl
    \/ SockCloneB

SpecSock == InitSock /\ [][NextSock]_vars

\* one SockAddr, from any constructor or from a raw structure
NextSockValue ==
    \/ SockNewInet
    \/ SockNewUnix
    \/ SockUnixAbstract
    \/ SockNewNetlink
    \/ SockPacket
    \/ SockSysControl
    \/ SockFromLibc

SpecSockValue == InitSock /\ [][NextSockValue]_vars

InitPacket ==
    /\ target_os \in LinuxLike
    /\ target_endian \in TargetEndian
    /\ Defaults

NextPacket ==
    \/ SockPacket
    \/ SockCloneB
    \/ PacketSetHalenA
    \/ PacketSetHalenB

SpecPacket == InitPacket /\ [][NextPacket]_vars

InitCtl ==
    /\ target_os \in AppleLike
    /\ target_endian \in TargetEndian
    /\ Defaults

NextCtl == CtlFromName

SpecCtl == InitCtl /\ [][NextCtl]_vars

InitFamily ==
    /\ target_os \in TargetOs
    /\ target_endian \in TargetEndian
    /\ Defaults

NextFamily == FamilyFromI32

SpecFamily == InitFamily /\ [][NextFamily]_vars

InitRaw ==
    /\ target_os \in TargetOs
    /\ target_endian \in TargetEndian
    /\ Defaults

NextRaw == RawFromLibc

SpecRaw == InitRaw /\ [][NextRaw]_vars

-----------------------------------------------------------------------------
(* Properties of InetAddr, checked under SpecInet                          *)

\* C1: for every generic socket address x, to_std(from_std(x)) = x, for
\* IPv4 (octets, port) and IPv6 (segments, port, flow-info, scope-id).
C1_FromStdToStdRoundTrip ==
    inetA.call = "from_std" => InetAddr_to_std(inetA.val) = inetA.arg

C1_Witness ==
    /\ inetA.call = "from_std"
    /\ inetA.arg.tag = "V6"
    /\ inetA.arg.ip = <<8193, 3512, 0, 0, 0, 0, 255, 65280>>
    /\ inetA.arg.port = 8080
    /\ inetA.arg.flowinfo = 7
    /\ inetA.arg.scope_id = 3
    /\ target_endian = "little"
    /\ inetA.val.sa.sin6_port = 36895
    /\ InetAddr_to_std(inetA.val) = inetA.arg

StoredPort(v) == IF v.tag = "V4" THEN v.sa.sin_port ELSE v.sa.sin6_port

\* C2: v = InetAddr::new(ip, p) has v.port() = p and v.ip() = ip, with
\* octets()/segments() returning the constructor inputs in order; the port
\* field holds p big-endian in memory, and the IPv6 flow-info and scope-id
\* are zero.
C2_NewStoresNetworkOrder ==
    inetA.call = "new" =>
        LET v == inetA.val
            ip == InetAddr_ip(v)
            p == inetA.arg.port
        IN  /\ InetAddr_port(v) = p
            /\ ip.tag = inetA.arg.tag
            /\ ip.tag = "V4" =>
                  /\ ip = IpAddr_new_v4(inetA.arg.parts)
                  /\ octets(ip.ip) = inetA.arg.parts
            /\ ip.tag = "V6" =>
                  /\ ip = IpAddr_new_v6(inetA.arg.parts)
                  /\ segments(ip.ip) = inetA.arg.parts
            /\ MemBytes16(StoredPort(v)) = <<p \div 256, p % 256>>
            /\ v.tag = "V6" => v.sa.sin6_flowinfo = 0 /\ v.sa.sin6_scope_id = 0

C2_Witness ==
    /\ inetA.call = "new"
    /\ inetA.arg.parts = <<127, 0, 0, 1>>
    /\ inetA.arg.port = 8080
    /\ target_endian = "little"
    /\ inetA.val.sa.sin_port = 36895
    /\ InetAddr_port(inetA.val) = 8080

\* the structure with its family field and padding overwritten
Repad(a, f, z) ==
    IF a.tag = "V4" THEN V4([a.sa EXCEPT !.sin_family = f, !.sin_zero = z])
    ELSE V6([a.sa EXCEPT !.sin6_family = f])

\* C9: two V4 values are equal iff port and address match; two V6 values
\* iff port, address, flow-info and scope-id match; the family field and
\* the padding never change the result; V4 and V6 are never equal.
C9_InetEqIgnoresPadding ==
    LET a == inetA.val
        b == inetB
    IN  /\ (a.tag = "V4" /\ b.tag = "V4") =>
              (InetAddr_eq(a, b) <=>
                  /\ InetAddr_port(a) = InetAddr_port(b)
                  /\ octets(a.sa.sin_addr) = octets(b.sa.sin_addr))
        /\ (a.tag = "V6" /\ b.tag = "V6") =>
              (InetAddr_eq(a, b) <=>
                  /\ InetAddr_port(a) = InetAddr_port(b)
                  /\ segments(a.sa.sin6_addr) = segments(b.sa.sin6_addr)
                  /\ a.sa.sin6_flowinfo = b.sa.sin6_flowinfo
                  /\ a.sa.sin6_scope_id = b.sa.sin6_scope_id)
        /\ a.tag # b.tag => ~InetAddr_eq(a, b) /\ ~InetAddr_eq(b, a)
        /\ \A f \in {0, AF_INET, AF_INET6}, z \in {0, 255} :
              /\ InetAddr_eq(Repad(a, f, z), b) = InetAddr_eq(a, b)
              /\ InetAddr_eq(a, Repad(b, f, z)) = InetAddr_eq(a, b)

C9_Witness ==
    /\ inetA.val.tag = "V4"
    /\ inetB.tag = "V4"
    /\ inetA.val.sa.sin_zero # inetB.sa.sin_zero
    /\ inetA.val.sa.sin_family # inetB.sa.sin_family
    /\ InetAddr_eq(inetA.val, inetB)

-----------------------------------------------------------------------------
(* Properties of UnixAddr, checked under SpecUnix                          *)

\* the buffer contents a sockaddr_un may hold beyond the first n bytes of buf
Tails(n) == {t \in SeqsUpTo(Bytes, n) : Len(t) = n}
\* the addresses that agree with u on the used length and the used bytes
TrailingVariants(u) ==
    {<<[u[1] EXCEPT !.sun_path = SubSeq(u[1].sun_path, 1, u[2]) \o t], u[2]>> :
        t \in Tails(SunPathLen - u[2])}

Zeros(n) == [i \in 1..n |-> 0]

\* C3: for a non-empty path p without NUL and no longer than the buffer,
\* new(p) is Ok, records used_length = len(p), stores the bytes verbatim
\* (the rest of the buffer stays zero) and path() returns exactly p.
C3_UnixPathRoundTrip ==
    (/\ unixA.call = "new"
     /\ unixA.arg # << >>
     /\ ~HasNul(unixA.arg)
     /\ Len(unixA.arg) <= SunPathLen) =>
        /\ unixA.res.tag = "Ok"
        /\ unixA.res.val[2] = Len(unixA.arg)
        /\ unixA.res.val[1].sun_path = unixA.arg \o Zeros(SunPathLen - Len(unixA.arg))
        /\ UnixAddr_path(unixA.res.val) = Some(unixA.arg)

C3_Witness ==
    /\ unixA.call = "new"
    /\ Len(unixA.arg) = SunPathLen
    /\ unixA.arg[1] = 47
    /\ ~HasNul(unixA.arg)
    /\ UnixAddr_path(unixA.res.val) = Some(unixA.arg)

\* C4: in filesystem-path mode path() returns the bytes [0, n), n the index
\* of the first NUL among the first used_length bytes or used_length when
\* there is none; the bytes at index >= used_length do not change the
\* result, and a full buffer without NUL is returned whole.
C4_PathBoundedByUsedLength ==
    (/\ unixA.res.tag = "Ok"
     /\ unixA.res.val[2] > 0
     /\ unixA.res.val[1].sun_path[1] # 0) =>
        LET u == unixA.res.val
            buf == u[1].sun_path
            r == UnixAddr_path(u)
        IN  /\ r.tag = "Some"
            /\ Len(r.val) <= u[2]
            /\ r.val = SubSeq(buf, 1, Len(r.val))
            /\ ~HasNul(r.val)
            /\ Len(r.val) < u[2] => buf[Len(r.val) + 1] = 0
            /\ \A v \in TrailingVariants(u) : UnixAddr_path(v) = r
            /\ (u[2] = SunPathLen /\ ~HasNul(buf)) => r.val = buf

C4_Witness ==
    /\ unixA.call = "fields"
    /\ unixA.res.val[2] > 0
    /\ unixA.res.val[2] < SunPathLen
    /\ ~HasNul(unixA.res.val[1].sun_path)
    /\ UnixAddr_path(unixA.res.val) = Some(sun_path(unixA.res.val))

\* C5: for a filesystem path p (no NUL byte), new(p) and new_unix(p) fail
\* with ENAMETOOLONG iff len(p) exceeds the buffer; the failure carries no
\* address, a success holds all of p (nothing is cut off), and a path as
\* long as the buffer is accepted.
C5_OversizePathRejected ==
    (unixA.call = "new" /\ ~HasNul(unixA.arg)) =>
        LET s == SockAddr_new_unix(unixA.arg)
        IN  /\ unixA.res = Err(ENAMETOOLONG) <=> Len(unixA.arg) > SunPathLen
            /\ unixA.res.tag = "Err" => unixA.res = Err(ENAMETOOLONG)
            /\ unixA.res.tag = "Ok" => sun_path(unixA.res.val) = unixA.arg
            /\ Len(unixA.arg) = SunPathLen => unixA.res.tag = "Ok"
            /\ s = Err(ENAMETOOLONG) <=> Len(unixA.arg) > SunPathLen
            /\ s.tag = "Ok" => s.val = Unix(unixA.res.val)

C5_Witness ==
    /\ unixA.call = "new"
    /\ ~HasNul(unixA.arg)
    /\ Len(unixA.arg) = SunPathLen + 1
    /\ unixA.res = Err(ENAMETOOLONG)
    /\ SockAddr_new_unix(unixA.arg) = Err(ENAMETOOLONG)

\* C6: new_abstract(name), for any bytes, fails with ENAMETOOLONG iff
\* len(name) + 1 exceeds the buffer; otherwise the buffer holds a zero byte
\* then name, used_length = len(name) + 1, as_abstract() is name and path()
\* is None.
C6_AbstractConstruction ==
    unixA.call = "new_abstract" =>
        /\ unixA.res = Err(ENAMETOOLONG) <=> Len(unixA.arg) + 1 > SunPathLen
        /\ unixA.res.tag = "Err" => unixA.res = Err(ENAMETOOLONG)
        /\ unixA.res.tag = "Ok" =>
              LET u == unixA.res.val
              IN  /\ u[1].sun_path =
                        <<0>> \o unixA.arg \o Zeros(SunPathLen - Len(unixA.arg) - 1)
                  /\ u[2] = Len(unixA.arg) + 1
                  /\ UnixAddr_as_abstract(u) = Some(unixA.arg)
                  /\ UnixAddr_path(u) = None

C6_Witness ==
    /\ unixA.call = "new_abstract"
    /\ Len(unixA.arg) + 1 = SunPathLen
    /\ HasNul(unixA.arg)
    /\ unixA.arg[Len(unixA.arg)] = 97
    /\ UnixAddr_as_abstract(unixA.res.val) = Some(unixA.arg)

\* C7: the mode is decided by (used_length, first byte): both accessors are
\* None iff used_length = 0; as_abstract() is Some of the used_length - 1
\* bytes after the zero and path() None iff used_length > 0 with a zero
\* first byte; path() is Some and as_abstract() None iff used_length > 0
\* with a non-zero first byte; never both Some; and what new and
\* new_abstract return has used_length <= capacity.  as_abstract exists on
\* Linux and Android only; elsewhere the statement is the one about path().
C7_ModeByLengthAndFirstByte ==
    unixA.res.tag = "Ok" =>
        LET u == unixA.res.val
            len == u[2]
            first == u[1].sun_path[1]
            p == UnixAddr_path(u)
        IN  /\ len <= SunPathLen
            /\ p.tag = "Some" <=> (len > 0 /\ first # 0)
            /\ target_os \in LinuxLike =>
                  LET a == UnixAddr_as_abstract(u)
                  IN  /\ (p = None /\ a = None) <=> len = 0
                      /\ (a.tag = "Some" /\ p = None) <=> (len > 0 /\ first = 0)
                      /\ (p.tag = "Some" /\ a = None) <=> (len > 0 /\ first # 0)
                      /\ ~(p.tag = "Some" /\ a.tag = "Some")
                      /\ a.tag = "Some" =>
                            /\ Len(a.val) = len - 1
                            /\ \A i \in 1..(len - 1) : a.val[i] = u[1].sun_path[i + 1]

C7_Witness ==
    /\ unixA.call = "fields"
    /\ target_os = "linux"
    /\ unixA.res.val[2] = SunPathLen
    /\ unixA.res.val[1].sun_path[1] = 0
    /\ unixA.res.val[1].sun_path[2] = 97
    /\ UnixAddr_path(unixA.res.val) = None
    /\ UnixAddr_as_abstract(unixA.res.val).tag = "Some"

-----------------------------------------------------------------------------
(* Properties of UnixAddr equality, checked under SpecUnixEq               *)

\* C8: two UnixAddr are equal iff they have the same used_length and the
\* same bytes in [0, used_length); the bytes at index >= used_length change
\* neither the equality nor what is fed to the hasher.
C8_UnixEqBoundedByUsedLength ==
    LET a == unixL
        b == unixR
    IN  /\ UnixAddr_eq(a, b) <=>
              /\ a[2] = b[2]
              /\ \A i \in 1..a[2] : a[1].sun_path[i] = b[1].sun_path[i]
        /\ \A v \in TrailingVariants(a) :
              /\ UnixAddr_eq(v, b) = UnixAddr_eq(a, b)
              /\ UnixAddr_eq(b, v) = UnixAddr_eq(b, a)
              /\ UnixAddr_hash(v) = UnixAddr_hash(a)

C8_Witness ==
    /\ unixL[2] = unixR[2]
    /\ unixL[2] > 0
    /\ unixL[2] < SunPathLen
    /\ unixL[1].sun_path[SunPathLen] # unixR[1].sun_path[SunPathLen]
    /\ UnixAddr_eq(unixL, unixR)

-----------------------------------------------------------------------------
(* Properties of SockAddr, checked under SpecSock                          *)

\* a == b for two payloads of the variant tag, by that variant's own eq
PayloadEq(tag, a, b) ==
    IF tag = "Inet" THEN InetAddr_eq(a, b)
    ELSE IF tag = "Unix" THEN UnixAddr_eq(a, b)
    ELSE IF tag = "Netlink" THEN NetlinkAddr_eq(a, b)
    ELSE IF tag = "Packet" THEN PacketAddr_eq_asserts(a, b) /\ PacketAddr_eq(a, b)
    ELSE SysControlAddr_eq(a, b)

\* C10: two SockAddr of the same variant are equal exactly when their
\* payloads are equal under the variant's own equality, so every SockAddr
\* equals itself; two SockAddr of different families are never equal.
C10_SockEqDelegates ==
    LET a == sockA.val
        b == sockB
    IN  /\ a.tag = b.tag => (SockAddr_eq(a, b) <=> PayloadEq(a.tag, a.val, b.val))
        /\ SockAddr_eq(a, a)
        /\ SockAddr_family(a) # SockAddr_family(b) => ~SockAddr_eq(a, b)

\* C10 without the Packet and SysControl variants, which PartialEq for
\* SockAddr has no arm for
C10_SockEqDelegatesWhereMatched ==
    LET a == sockA.val
        b == sockB
    IN  /\ (a.tag = b.tag /\ a.tag \in {"Inet", "Unix", "Netlink"}) =>
              (SockAddr_eq(a, b) <=> PayloadEq(a.tag, a.val, b.val))
        /\ a.tag \in {"Inet", "Unix", "Netlink"} => SockAddr_eq(a, a)
        /\ SockAddr_family(a) # SockAddr_family(b) => ~SockAddr_eq(a, b)

-----------------------------------------------------------------------------
(* Properties of AddressFamily, checked under SpecFamily                   *)

\* the families the decoder is to recognise on the target
Decodable ==
    {"Unix", "Inet", "Inet6"}
        \cup (IF target_os \in LinuxLike THEN {"Netlink", "Packet"} ELSE {})
        \cup (IF target_os \in AppleLike THEN {"System"} ELSE {})

\* C14: from_i32 is a partial inverse of `as i32`: Some(t) only for the code
\* of t; Some for the codes of Unix, Inet, Inet6 everywhere, of Netlink and
\* Packet on Linux/Android, of System on ios and macos; None for every other
\* code, the codes of Ipx, AppleTalk and Decnet included.
C14_FromI32PartialInverse ==
    /\ famA.res.tag = "Some" => /\ famA.res.val \in AddressFamily
                                /\ AddressFamily_as_i32(famA.res.val) = famA.arg
    /\ \A t \in Decodable : famA.arg = AddressFamily_as_i32(t) => famA.res = Some(t)
    /\ (\A t \in Decodable : famA.arg # AddressFamily_as_i32(t)) => famA.res = None

\* what does hold of the code: Some(t) only for the code of t, and the
\* codes of Ipx, AppleTalk and Decnet are not decoded
C14_DecodedCodeIsOwnCode ==
    /\ famA.res.tag = "Some" => /\ famA.res.val \in AddressFamily
                                /\ AddressFamily_as_i32(famA.res.val) = famA.arg
    /\ famA.arg \in {AF_IPX, AF_APPLETALK, AF_DECnet} => famA.res = None

-----------------------------------------------------------------------------
(* Properties of SockAddr::from_libc_sockaddr, checked under SpecRaw       *)

\* C11: from_libc_sockaddr returns None for a null pointer, for a header
\* code from_i32 does not recognise and for the Unix family; for a header
\* that declares IPv4, IPv6, Netlink or Packet (Linux/Android) or System
\* (ios/macos) it returns the matching variant holding an exact copy of
\* the structure.
C11_FromLibcFailsClosedAndDispatches ==
    LET addr == rawA.arg
        h == sa_family(addr)
    IN  /\ addr = NullPtr => rawA.res = None
        /\ addr # NullPtr =>
              /\ AddressFamily_from_i32(h) = None => rawA.res = None
              /\ h = AF_UNIX => rawA.res = None
              /\ h = AF_INET => rawA.res = Some(Inet(V4(addr.sa)))
              /\ h = AF_INET6 => rawA.res = Some(Inet(V6(addr.sa)))
              /\ target_os \in LinuxLike /\ h = AF_NETLINK
                     => rawA.res = Some(Netlink(addr.sa))
              /\ target_os \in LinuxLike /\ h = AF_PACKET
                     => rawA.res = Some(Packet(addr.sa))
              /\ target_os \in AppleLike /\ h = AF_SYSTEM
                     => rawA.res = Some(SysControl(addr.sa))

\* what does hold of the code: the None cases, and a returned address is
\* the variant of the header's family around a copy of the structure
C11_FailsClosed ==
    LET addr == rawA.arg
    IN  /\ addr = NullPtr => rawA.res = None
        /\ addr # NullPtr =>
              /\ AddressFamily_from_i32(sa_family(addr)) = None => rawA.res = None
              /\ sa_family(addr) = AF_UNIX => rawA.res = None
              /\ rawA.res.tag = "Some" =>
                    /\ rawA.res.val.val \in {addr.sa, V4(addr.sa), V6(addr.sa)}
                    /\ AddressFamily_as_i32(SockAddr_family(rawA.res.val)) = sa_family(addr)

-----------------------------------------------------------------------------
(* Properties of SockAddr::as_ffi_pair and family, under SpecSockValue     *)

\* C12: the length as_ffi_pair returns is the size of the active variant's
\* kernel structure (sockaddr_in, sockaddr_in6, sockaddr_nl, sockaddr_ll,
\* sockaddr_ctl), for Unix the offset of sun_path plus the used length, which
\* is the whole sockaddr_un only when the used length is the capacity; the
\* pointer is to the structure the variant stores.
C12_FfiPairLength ==
    LET a == sockA.val
        pair == SockAddr_as_ffi_pair(a)
    IN  /\ a.tag = "Inet" /\ a.val.tag = "V4" =>
              pair = <<Ptr("sockaddr_in", a.val.sa), SockaddrInSize>>
        /\ a.tag = "Inet" /\ a.val.tag = "V6" =>
              pair = <<Ptr("sockaddr_in6", a.val.sa), SockaddrIn6Size>>
        /\ a.tag = "Netlink" => pair = <<Ptr("sockaddr_nl", a.val), SockaddrNlSize>>
        /\ a.tag = "Packet" => pair = <<Ptr("sockaddr_ll", a.val), SockaddrLlSize>>
        /\ a.tag = "SysControl" => pair = <<Ptr("sockaddr_ctl", a.val), SockaddrCtlSize>>
        /\ a.tag = "Unix" =>
              /\ pair[1] = Ptr("sockaddr_un", a.val[1])
              /\ pair[2] = SunPathOffset + a.val[2]
              /\ pair[2] = SunPathOffset + SunPathLen => a.val[2] = SunPathLen

C12_Witness ==
    /\ sockA.call = "new_unix"
    /\ sockA.val.val[2] \in 1..(SunPathLen - 1)
    /\ SockAddr_as_ffi_pair(sockA.val)[2] < SunPathOffset + SunPathLen

\* C13: family() names a variant of AddressFamily and agrees with the
\* active variant; for an address made by new_inet, new_unix, new_netlink,
\* SysControlAddr::new or from_libc_sockaddr, the code of family() is the
\* family code in the header of the structure as_ffi_pair points at.
C13_FamilyAgrees ==
    LET a == sockA.val
        f == SockAddr_family(a)
    IN  /\ f \in AddressFamily
        /\ f = "Inet" <=> a.tag = "Inet" /\ a.val.tag = "V4"
        /\ f = "Inet6" <=> a.tag = "Inet" /\ a.val.tag = "V6"
        /\ f = "Unix" <=> a.tag = "Unix"
        /\ f = "Netlink" <=> a.tag = "Netlink"
        /\ f = "Packet" <=> a.tag = "Packet"
        /\ f = "System" <=> a.tag = "SysControl"
        /\ sockA.call \in {"new_inet", "new_unix", "new_netlink", "sys_control",
                            "from_libc_sockaddr"}
              => AddressFamily_as_i32(f) = sa_family(SockAddr_as_ffi_pair(a)[1])

C13_Witness ==
    /\ sockA.call = "from_libc_sockaddr"
    /\ SockAddr_family(sockA.val) = "Inet6"
    /\ sa_family(SockAddr_as_ffi_pair(sockA.val)[1]) = AF_INET6

-----------------------------------------------------------------------------
(* Properties of Display for InetAddr, checked under SpecInet              *)

\* C15: an InetAddr built from octets a, b, c, d and a port displays as
\* a.b.c.d:port in decimal, one built from eight segments as [ip]:port with
\* ip in the standard IPv6 text; 192.168.1.1 port 443 gives
\* "192.168.1.1:443" and ::1 port 443 gives "[::1]:443"; to_str() is the
\* same text.
C15_InetDisplay ==
    LET arg == inetA.arg
        text == InetAddr_fmt(inetA.val)
    IN  /\ InetAddr_to_str(inetA.val) = text
        /\ inetA.call = "new" /\ arg.tag = "V4" =>
              /\ text = fmt_decimal(arg.parts[1]) \o "." \o fmt_decimal(arg.parts[2]) \o "."
                           \o fmt_decimal(arg.parts[3]) \o "." \o fmt_decimal(arg.parts[4])
                           \o ":" \o fmt_decimal(arg.port)
              /\ arg.parts = <<192, 168, 1, 1>> /\ arg.port = 443 => text = "192.168.1.1:443"
              /\ arg.parts = <<127, 0, 0, 1>> /\ arg.port = 8080 => text = "127.0.0.1:8080"
        /\ inetA.call = "new" /\ arg.tag = "V6" =>
              /\ text = "[" \o net_Ipv6Addr_fmt(arg.parts) \o "]:" \o fmt_decimal(arg.port)
              /\ arg.parts = <<0, 0, 0, 0, 0, 0, 0, 1>> /\ arg.port = 443 => text = "[::1]:443"
              /\ arg.parts = <<8193, 3512, 0, 0, 0, 0, 255, 65280>> /\ arg.port = 0
                     => text = "[2001:db8::ff:ff00]:0"

C15_Witness ==
    /\ inetA.call = "new"
    /\ inetA.arg.tag = "V6"
    /\ inetA.arg.port = 443
    /\ target_endian = "little"
    /\ InetAddr_fmt(inetA.val) = "[::1]:443"

-----------------------------------------------------------------------------
(* Properties of Display for UnixAddr, checked under SpecUnix              *)

-----------------------------------------------------------------------------
(* Properties of PacketAddr equality, checked under SpecPacket             *)

\* C17: PacketAddr == asserts on an operand whose sll_halen exceeds the 8
\* bytes of sll_addr; for two operands whose sll_halen is within 0..8 it
\* completes without failure and is true exactly when family, protocol,
\* interface index, hardware type, packet type and the first sll_halen
\* address bytes all match.
C17_PacketEqBoundChecked ==
    (sockA.val.tag = "Packet" /\ sockB.tag = "Packet") =>
        LET a == sockA.val.val
            b == sockB.val
        IN  /\ (a.sll_halen > SllAddrLen \/ b.sll_halen > SllAddrLen)
                   => ~PacketAddr_eq_asserts(a, b)
            /\ (a.sll_halen <= SllAddrLen /\ b.sll_halen <= SllAddrLen) =>
                  /\ PacketAddr_eq_asserts(a, b)
                  /\ PacketAddr_eq(a, b) <=>
                        /\ a.sll_family = b.sll_family
                        /\ a.sll_protocol = b.sll_protocol
                        /\ a.sll_ifindex = b.sll_ifindex
                        /\ a.sll_hatype = b.sll_hatype
                        /\ a.sll_pkttype = b.sll_pkttype
                        /\ a.sll_halen = b.sll_halen
                        /\ SubSeq(a.sll_addr, 1, a.sll_halen) = SubSeq(b.sll_addr, 1, b.sll_halen)

\* what does hold of the code: the same with the bound one lower, lengths
\* 0..7 compare and a length of 8 or more fails the assertion
C17_PacketEqBelowCapacity ==
    (sockA.val.tag = "Packet" /\ sockB.tag = "Packet") =>
        LET a == sockA.val.val
            b == sockB.val
        IN  /\ (a.sll_halen >= SllAddrLen \/ b.sll_halen >= SllAddrLen)
                   => ~PacketAddr_eq_asserts(a, b)
            /\ (a.sll_halen < SllAddrLen /\ b.sll_halen < SllAddrLen) =>
                  /\ PacketAddr_eq_asserts(a, b)
                  /\ PacketAddr_eq(a, b) <=>
                        /\ a.sll_family = b.sll_family
                        /\ a.sll_protocol = b.sll_protocol
                        /\ a.sll_ifindex = b.sll_ifindex
                        /\ a.sll_hatype = b.sll_hatype
                        /\ a.sll_pkttype = b.sll_pkttype
                        /\ a.sll_halen = b.sll_halen
                        /\ SubSeq(a.sll_addr, 1, a.sll_halen) = SubSeq(b.sll_addr, 1, b.sll_halen)

-----------------------------------------------------------------------------
(* Properties of SysControlAddr::from_name, checked under SpecCtl          *)

\* C18: from_name fails with ENAMETOOLONG without a query on fd iff the name
\* is longer than the 96-byte buffer; otherwise it makes exactly one query,
\* on the caller's descriptor, with the name in a zero-filled 96-byte
\* buffer, returns the query's error unchanged, and on success returns the
\* address of the id the query reported and the unit given; no other call
\* (open, close) is made on the descriptor.
C18_FromName ==
    LET n == Len(ctlA.name)
        out == ctlA.out
    IN  /\ (out.res = Err(ENAMETOOLONG) /\ out.calls = << >>) <=> n > MAX_KCTL_NAME
        /\ n <= MAX_KCTL_NAME =>
              /\ Len(out.calls) = 1
              /\ out.calls[1].call = "ioctl"
              /\ out.calls[1].fd = ctlA.fd
              /\ out.calls[1].arg.ctl_id = 0
              /\ Len(out.calls[1].arg.ctl_name) = MAX_KCTL_NAME
              /\ SubSeq(out.calls[1].arg.ctl_name, 1, n) = ctlA.name
              /\ \A i \in (n + 1)..MAX_KCTL_NAME : out.calls[1].arg.ctl_name[i] = 0
              /\ ctlA.kernel.tag = "Err" => out.res = ctlA.kernel
              /\ ctlA.kernel.tag = "Ok" =>
                    /\ out.res.tag = "Ok"
                    /\ out.res.val = SysControlAddr_new(ctlA.kernel.val, ctlA.unit)
                    /\ out.res.val.sc_id = ctlA.kernel.val
                    /\ out.res.val.sc_unit = ctlA.unit

C18_Witness ==
    /\ Len(ctlA.name) = MAX_KCTL_NAME
    /\ ctlA.kernel = Ok(2)
    /\ ctlA.unit = 1
    /\ ctlA.out.res.tag = "Ok"
    /\ ctlA.out.res.val.sc_id = 2

-----------------------------------------------------------------------------
(* Properties of Hash, checked under SpecInet                              *)

\* C19: for two addresses of a type, a == b implies that hash feeds the
\* hasher the same fields for a and b, also when the values come from raw
\* structures whose stored family differs.
C19_HashConsistentWithEq ==
    /\ InetAddr_eq(inetA.val, inetB) => InetAddr_hash(inetA.val) = InetAddr_hash(inetB)
    /\ UnixAddr_eq(unixL, unixR) => UnixAddr_hash(unixL) = UnixAddr_hash(unixR)
    /\ SockAddr_eq(sockA.val, sockB) => SockAddr_hash(sockA.val) = SockAddr_hash(sockB)

\* what does hold of the code: equal InetAddr values whose stored family is
\* the same hash alike
C19_HashConsistentForSameFamily ==
    LET family(v) == IF v.tag = "V4" THEN v.sa.sin_family ELSE v.sa.sin6_family
    IN  (InetAddr_eq(inetA.val, inetB) /\ family(inetA.val) = family(inetB))
            => InetAddr_hash(inetA.val) = InetAddr_hash(inetB)

=============================================================================
